---- MODULE Spec2Model ----
(***************************************************************************)
(* The single-pass, context-aware statement parser of bcplpp               *)
(* (src/parser/stmt.rs) as a state machine.                                *)
(*                                                                         *)
(* The recursive descent is made explicit: `stack` holds one activation    *)
(* record per parse function that is waiting for a nested parse_stmt to    *)
(* return, `ret` holds the ParseResult travelling back to the record on    *)
(* top of the stack.  The lexer delivers the token stream one token at a   *)
(* time (action Lex), exactly when the parse function that is about to run *)
(* looks at a token that has not been delivered yet; a token's Location is *)
(* its index in the stream.                                                *)
(***************************************************************************)
EXTENDS Integers, Sequences, FiniteSets, TLC

\* ---- bounds -------------------------------------------------------------
MaxTokens == 8     \* tokens delivered by the lexer before the end-of-file token
MaxStmts == 3      \* parse_stmt calls explored in one parse
MaxSiblingTokens == 11   \* the same two bounds for the texts of SiblingVocabulary,
MaxSiblingStmts == 5     \* long enough for two switchons one after the other in a block
MaxLoopTokens == 5     \* tokens before the end-of-file token in the texts parsed to the end
MaxFiles == 3      \* source files handed to the driver
MaxWarnings == 2   \* warnings one parse collects
MaxLines == 2      \* lines of a source file
MaxWidth == 1      \* columns and widths of a Location

VARIABLES
    vocab,      \* the token kinds that occur in the source text being parsed
    entry,      \* the context the caller of parse_stmt passed
    toks,       \* the tokens the lexer has delivered so far (token kinds)
    pos,        \* the parser's cursor: index of the current token
    stack,      \* activation records of the parse functions in progress
    ret,        \* the ParseResult being returned to the top of the stack
    cells,      \* the RefCell<Option<Option<TypeIndex>>> of valof/function frames
    markers,    \* the RefCell<Option<Location>> default markers of switchons
    warnings,   \* the parser's list of non-fatal warnings
    nstmts      \* number of parse_stmt calls made so far

parserVars == <<vocab, entry, toks, pos, stack, ret, cells, markers, warnings, nstmts>>

\* the source registry (src/source_file.rs)
VARIABLES
    overflow_checks,  \* the build profile: integer overflow checks compiled in
    lines,            \* SourceFile::lines, the line table of a source file
    line_num,         \* the argument of the last SourceFile::line call
    line_result,      \* what that call did
    location,         \* a Location
    former            \* a clone of loc taken earlier

sourceVars == <<overflow_checks, lines, line_num, line_result, location, former>>

\* the driver (Context::compile in src/context.rs)
VARIABLES
    source_files,     \* number of files of Context::source_files, ids 1..source_files
    pc,               \* where compile is
    file,             \* the file of the current iteration of the loop
    had_errors,       \* the local of compile
    outcome,          \* what parser.parse() returned and what parser.warnings() holds
    next_warning,     \* the next warning of the loop over parser.warnings()
    parses,           \* history: the parser.parse() calls made, in order
    trace,            \* history: what compile has printed and called, in order
    result            \* what compile returned

driverVars == <<source_files, pc, file, had_errors, outcome, next_warning, parses, trace, result>>

vars == <<parserVars, sourceVars, driverVars>>

\* ---- tokens, types, expressions -----------------------------------------
\* An expression is abstracted to one token; its kind fixes the resolved
\* type and the has_sideeffect flag the expression parser reports for it.
ExprTokens == {"IntLit", "BoolLit", "Ident", "Call"}

Tokens == {"LBrace", "RBrace", "ResultIs", "Return", "If", "Unless", "While",
           "Until", "For", "SwitchOn", "Case", "Default", "EndCase",
           "Compound", "Semicolon", "Colon", "Do", "Else", "Into", "To", "By",
           "Eq", "Eof"} \cup ExprTokens

\* Option<TypeIndex>: NoType is None, "Int" and "Bool" are Some(index).
NoType == "NoType"
Types == {"Int", "Bool"}
\* Option<Option<TypeIndex>>: Unset is None, any other value v is Some(v).
Unset == "Unset"
\* Option<Location>: NoLoc is None, a positive index is Some(location).
NoLoc == 0

TokenType(t) == CASE t = "IntLit" -> "Int" [] t = "BoolLit" -> "Bool" [] OTHER -> NoType
TokenSideEffect(t) == t = "Call"

Atom(t, loc) == [kind |-> "Atom", typ |-> TokenType(t), se |-> TokenSideEffect(t), loc |-> loc]

\* Expr::new(loc, typ, ExprKind::ImplicitCast(Box::new(expr)))
CastNode(loc, typ, expr) == [kind |-> "ImplicitCast", typ |-> typ, se |-> expr.se, loc |-> loc, inner |-> expr]

implicit_cast(expr, typ) == CastNode(expr.loc, typ, expr)

get_type_Bool == "Bool"

RECURSIVE NumCasts(_)
NumCasts(e) == IF e.kind = "ImplicitCast" THEN 1 + NumCasts(e.inner) ELSE 0

\* ---- results and diagnostics ---------------------------------------------
NoRet == [tag |-> "none"]
Ok(node) == [tag |-> "ok", node |-> node]
Err(e) == [tag |-> "err", err |-> e]

InvalidStmt(kw, req, loc) == [kind |-> "InvalidStmt", loc |-> loc, kw |-> kw, req |-> req, prev |-> NoLoc]
Redefinition(prev, what, loc) == [kind |-> "Redefinition", loc |-> loc, kw |-> what, req |-> "", prev |-> prev]
UnexpectedToken(loc) == [kind |-> "UnexpectedToken", loc |-> loc, kw |-> "", req |-> "", prev |-> NoLoc]
ExprWithoutSideEffect(loc) == [kind |-> "ExprWithoutSideEffect", loc |-> loc, kw |-> "", req |-> "", prev |-> NoLoc]

Stmt(loc, kind, exprs, kids) == [kind |-> kind, loc |-> loc, exprs |-> exprs, kids |-> kids]

\* what a parse function hands back to the machine: the parser state it
\* leaves, its ParseResult (NoRet while it waits for a nested parse_stmt) and
\* the activation records it leaves on the stack for that nested call
R(s, rt, push) == [s |-> s, ret |-> rt, push |-> push]
Fail(s, e) == R(s, Err(e), <<>>)

Frame(fn, context, data) == [fn |-> fn, ctx |-> context, data |-> data]
Call_parse_stmt(context) == Frame("parse_stmt", context, [loc |-> 0])

\* ---- StmtContext ----------------------------------------------------------
\* A context chain is the sequence of its frames, innermost first.
Empty == <<>>
ValOf(c, outer) == <<[k |-> "ValOf", id |-> c, ct |-> NoType]>> \o outer
Block(outer) == <<[k |-> "Block", id |-> 0, ct |-> NoType]>> \o outer
NoBlock(outer) == <<[k |-> "NoBlock", id |-> 0, ct |-> NoType]>> \o outer
Function(c) == <<[k |-> "Function", id |-> c, ct |-> NoType]>>
Loop(outer) == <<[k |-> "Loop", id |-> 0, ct |-> NoType]>> \o outer
SwitchOn(m, ct, outer) == <<[k |-> "SwitchOn", id |-> m, ct |-> ct]>> \o outer

\* the cell of the first ValOf frame, 0 for None
RECURSIVE last_valof_type(_)
last_valof_type(context) ==
    IF context = Empty THEN 0
    ELSE CASE Head(context).k = "ValOf" -> Head(context).id
           [] Head(context).k \in {"Block", "NoBlock", "Loop", "SwitchOn"} -> last_valof_type(Tail(context))
           [] OTHER -> 0

\* function_return_type that stops at a ValOf frame and hands out its cell
RECURSIVE function_return_type_valof(_)
function_return_type_valof(context) ==
    IF context = Empty THEN 0
    ELSE CASE Head(context).k \in {"Block", "NoBlock", "Loop", "SwitchOn"} -> function_return_type_valof(Tail(context))
           [] OTHER -> Head(context).id

\* the cell of the Function frame, 0 for None
RECURSIVE function_return_type(_)
function_return_type(context) ==
    IF context = Empty THEN 0
    ELSE CASE Head(context).k \in {"ValOf", "Block", "NoBlock", "Loop", "SwitchOn"} -> function_return_type(Tail(context))
           [] OTHER -> Head(context).id

\* require_semicolon with a NoBlock frame deferring to its parent
RECURSIVE require_semicolon_defer(_)
require_semicolon_defer(context) ==
    IF context = Empty THEN FALSE
    ELSE CASE Head(context).k = "Block" -> TRUE
           [] Head(context).k \in {"NoBlock", "Loop", "SwitchOn"} -> require_semicolon_defer(Tail(context))
           [] OTHER -> FALSE

RECURSIVE require_semicolon(_)
require_semicolon(context) ==
    IF context = Empty THEN FALSE
    ELSE CASE Head(context).k = "Block" -> TRUE
           [] Head(context).k \in {"Loop", "SwitchOn"} -> require_semicolon(Tail(context))
           [] OTHER -> FALSE

RECURSIVE in_loop(_)
in_loop(context) ==
    IF context = Empty THEN FALSE
    ELSE CASE Head(context).k = "Loop" -> TRUE
           [] Head(context).k \in {"ValOf", "Block", "NoBlock", "SwitchOn"} -> in_loop(Tail(context))
           [] OTHER -> FALSE

NoSwitch == [some |-> FALSE, m |-> 0, ct |-> NoType]

\* Some((default marker, condition type)) of the first SwitchOn frame
RECURSIVE in_switchon(_)
in_switchon(context) ==
    IF context = Empty THEN NoSwitch
    ELSE CASE Head(context).k = "SwitchOn" -> [some |-> TRUE, m |-> Head(context).id, ct |-> Head(context).ct]
           [] Head(context).k \in {"ValOf", "Block", "NoBlock", "Loop"} -> in_switchon(Tail(context))
           [] OTHER -> NoSwitch

\* ---- the token cursor -----------------------------------------------------
Ended == Len(toks) > 0 /\ toks[Len(toks)] = "Eof"

\* the token under the cursor; "Pending" when the lexer has not delivered it
current(s) ==
    IF s.pos <= Len(toks) THEN toks[s.pos]
    ELSE IF Ended THEN "Eof" ELSE "Pending"

advance(s) == [s EXCEPT !.pos = @ + 1]

expect(s, kinds) ==
    IF current(s) \in kinds
    THEN [ok |-> TRUE, s |-> advance(s), loc |-> s.pos, err |-> UnexpectedToken(0)]
    ELSE [ok |-> FALSE, s |-> s, loc |-> s.pos, err |-> UnexpectedToken(s.pos)]

advance_if(s, kinds) == IF current(s) \in kinds THEN advance(s) ELSE s

expect_ident(s) == expect(s, {"Ident"})

\* the expression parser: consumes one expression, or fails on a token that
\* starts none
parse_expr(s) ==
    IF current(s) \in ExprTokens
    THEN [ok |-> TRUE, s |-> advance(s), expr |-> Atom(current(s), s.pos), err |-> UnexpectedToken(0)]
    ELSE [ok |-> FALSE, s |-> s, expr |-> Atom("Ident", 0), err |-> UnexpectedToken(s.pos)]

push_warning(s, w) == [s EXCEPT !.warnings = Append(@, w)]

\* semicolon_if_required that never asks for the terminator
semicolon_if_required_never(context, s) ==
    [ok |-> TRUE, s |-> s, loc |-> s.pos, err |-> UnexpectedToken(0)]

semicolon_if_required(context, s) ==
    IF require_semicolon(context) THEN expect(s, {"Semicolon"})
    ELSE [ok |-> TRUE, s |-> s, loc |-> s.pos, err |-> UnexpectedToken(0)]

\* ---- leaf statements ------------------------------------------------------
\* resultis_unify that drops a mismatch instead of casting
resultis_unify_nocast(vt, expr, loc) ==
    IF vt = Unset THEN [expr |-> expr, cell |-> expr.typ]
    ELSE [expr |-> expr, cell |-> vt]

\* the match on the valof cell: [expr, cell] after unification
resultis_unify(vt, expr, loc) ==
    IF vt # Unset /\ vt # expr.typ THEN [expr |-> CastNode(loc, vt, expr), cell |-> vt]
    ELSE IF vt = Unset THEN [expr |-> expr, cell |-> expr.typ]
    ELSE [expr |-> expr, cell |-> vt]

parse_resultis(context, s) ==
    LET kw == expect(s, {"ResultIs"}) IN
    IF ~kw.ok THEN Fail(s, kw.err) ELSE
    LET e == parse_expr(kw.s) IN
    IF ~e.ok THEN Fail(e.s, e.err) ELSE
    LET c == last_valof_type(context) IN
    IF c = 0 THEN Fail(e.s, InvalidStmt("resultis", "valof", kw.loc)) ELSE
    LET u == resultis_unify(e.s.cells[c], e.expr, kw.loc)
        s2 == [e.s EXCEPT !.cells[c] = u.cell]
        semi == semicolon_if_required(context, s2)
    IN  IF ~semi.ok THEN Fail(s2, semi.err)
        ELSE R(semi.s, Ok(Stmt(kw.loc, "ResultIs", <<u.expr>>, <<>>)), <<>>)

\* return_unify that rebinds the cell to the type of a mismatching expression
return_unify_rebind(rt, expr, loc) ==
    IF rt # Unset /\ rt # expr.typ THEN [expr |-> CastNode(loc, rt, expr), cell |-> expr.typ]
    ELSE IF rt = Unset THEN [expr |-> expr, cell |-> expr.typ]
    ELSE [expr |-> expr, cell |-> rt]

\* the match on the function cell: [expr, cell] after unification
return_unify(rt, expr, loc) ==
    IF rt # Unset /\ rt # expr.typ THEN [expr |-> CastNode(loc, rt, expr), cell |-> rt]
    ELSE IF rt = Unset THEN [expr |-> expr, cell |-> expr.typ]
    ELSE [expr |-> expr, cell |-> rt]

parse_return(context, s) ==
    LET kw == expect(s, {"Return"}) IN
    IF ~kw.ok THEN Fail(s, kw.err) ELSE
    LET e == parse_expr(kw.s) IN
    IF ~e.ok THEN Fail(e.s, e.err) ELSE
    LET c == function_return_type(context) IN
    IF c = 0 THEN Fail(e.s, InvalidStmt("return", "function", kw.loc)) ELSE
    LET u == return_unify(e.s.cells[c], e.expr, kw.loc)
        s2 == [e.s EXCEPT !.cells[c] = u.cell]
        semi == semicolon_if_required(context, s2)
    IN  IF ~semi.ok THEN Fail(s2, semi.err)
        ELSE R(semi.s, Ok(Stmt(kw.loc, "Return", <<u.expr>>, <<>>)), <<>>)

\* parse_case that does not look for an enclosing switchon
parse_case_anywhere(context, s) ==
    LET kw == expect(s, {"Case"}) IN
    IF ~kw.ok THEN Fail(s, kw.err) ELSE
    LET e == parse_expr(kw.s) IN
    IF ~e.ok THEN Fail(e.s, e.err) ELSE
    LET colon == expect(e.s, {"Colon"}) IN
    IF ~colon.ok THEN Fail(e.s, colon.err)
    ELSE R(colon.s, Ok(Stmt(kw.loc, "Case", <<e.expr>>, <<>>)), <<>>)

\* parse_case that leaves the label as parsed, whatever the condition type
parse_case_nocast(context, s) ==
    LET kw == expect(s, {"Case"}) IN
    IF ~kw.ok THEN Fail(s, kw.err) ELSE
    LET e == parse_expr(kw.s) IN
    IF ~e.ok THEN Fail(e.s, e.err) ELSE
    LET colon == expect(e.s, {"Colon"}) IN
    IF ~colon.ok THEN Fail(e.s, colon.err) ELSE
    IF in_switchon(context).some
    THEN R(colon.s, Ok(Stmt(kw.loc, "Case", <<e.expr>>, <<>>)), <<>>)
    ELSE Fail(colon.s, InvalidStmt("case", "switchon", kw.loc))

parse_case(context, s) ==
    LET kw == expect(s, {"Case"}) IN
    IF ~kw.ok THEN Fail(s, kw.err) ELSE
    LET e == parse_expr(kw.s) IN
    IF ~e.ok THEN Fail(e.s, e.err) ELSE
    LET colon == expect(e.s, {"Colon"}) IN
    IF ~colon.ok THEN Fail(e.s, colon.err) ELSE
    LET sw == in_switchon(context) IN
    IF sw.some
    THEN LET expr == IF sw.ct # NoType /\ sw.ct # e.expr.typ
                     THEN implicit_cast(e.expr, sw.ct) ELSE e.expr
         IN  R(colon.s, Ok(Stmt(kw.loc, "Case", <<expr>>, <<>>)), <<>>)
    ELSE Fail(colon.s, InvalidStmt("case", "switchon", kw.loc))

\* parse_default_case that records every default, without the check of the marker
parse_default_case_overwrite(context, s) ==
    LET kw == expect(s, {"Default"}) IN
    IF ~kw.ok THEN Fail(s, kw.err) ELSE
    LET colon == expect(kw.s, {"Colon"}) IN
    IF ~colon.ok THEN Fail(kw.s, colon.err) ELSE
    LET sw == in_switchon(context) IN
    IF sw.some
    THEN R([colon.s EXCEPT !.markers[sw.m] = kw.loc],
           Ok(Stmt(kw.loc, "DefaultCase", <<>>, <<>>)), <<>>)
    ELSE Fail(colon.s, InvalidStmt("default", "switchon", kw.loc))

parse_default_case(context, s) ==
    LET kw == expect(s, {"Default"}) IN
    IF ~kw.ok THEN Fail(s, kw.err) ELSE
    LET colon == expect(kw.s, {"Colon"}) IN
    IF ~colon.ok THEN Fail(kw.s, colon.err) ELSE
    LET sw == in_switchon(context) IN
    IF sw.some
    THEN IF colon.s.markers[sw.m] # NoLoc
         THEN Fail(colon.s, Redefinition(colon.s.markers[sw.m], "default case", kw.loc))
         ELSE R([colon.s EXCEPT !.markers[sw.m] = kw.loc],
                Ok(Stmt(kw.loc, "DefaultCase", <<>>, <<>>)), <<>>)
    ELSE Fail(colon.s, InvalidStmt("default", "switchon", kw.loc))

parse_endcase(context, s) ==
    LET kw == expect(s, {"EndCase"}) IN
    IF ~kw.ok THEN Fail(s, kw.err) ELSE
    LET semi == semicolon_if_required(context, kw.s) IN
    IF ~semi.ok THEN Fail(kw.s, semi.err) ELSE
    IF in_switchon(context).some
    THEN R(semi.s, Ok(Stmt(kw.loc, "EndCase", <<>>, <<>>)), <<>>)
    ELSE Fail(semi.s, InvalidStmt("endcase", "switchon", kw.loc))

\* parse_expr_stmt that rejects an expression without side effect
parse_expr_stmt_strict(context, s) ==
    LET loc == s.pos
        e == parse_expr(s) IN
    IF ~e.ok THEN Fail(e.s, e.err) ELSE
    IF ~e.expr.se THEN Fail(push_warning(e.s, ExprWithoutSideEffect(loc)), ExprWithoutSideEffect(loc)) ELSE
    LET semi == semicolon_if_required(context, e.s)
    IN  IF ~semi.ok THEN Fail(e.s, semi.err)
        ELSE R(semi.s, Ok(Stmt(loc, "Expr", <<e.expr>>, <<>>)), <<>>)

\* parse_expr_stmt that takes the absence of an expression for an empty
\* statement, consuming nothing
parse_expr_stmt_empty(context, s) ==
    LET loc == s.pos
        e == parse_expr(s) IN
    IF ~e.ok THEN R(s, Ok(Stmt(loc, "Expr", <<>>, <<>>)), <<>>) ELSE
    LET s2 == IF ~e.expr.se THEN push_warning(e.s, ExprWithoutSideEffect(loc)) ELSE e.s
        semi == semicolon_if_required(context, s2)
    IN  IF ~semi.ok THEN Fail(s2, semi.err)
        ELSE R(semi.s, Ok(Stmt(loc, "Expr", <<e.expr>>, <<>>)), <<>>)

parse_expr_stmt(context, s) ==
    LET loc == s.pos
        e == parse_expr(s) IN
    IF ~e.ok THEN Fail(e.s, e.err) ELSE
    LET s2 == IF ~e.expr.se THEN push_warning(e.s, ExprWithoutSideEffect(loc)) ELSE e.s
        semi == semicolon_if_required(context, s2)
    IN  IF ~semi.ok THEN Fail(s2, semi.err)
        ELSE R(semi.s, Ok(Stmt(loc, "Expr", <<e.expr>>, <<>>)), <<>>)

\* ---- statements that contain statements ---------------------------------
\* the while loop of parse_block and what follows it
parse_block_loop(context, loc, stmts, s) ==
    IF current(s) # "RBrace"
    THEN R(s, NoRet, <<Frame("parse_block", context, [loc |-> loc, stmts |-> stmts]),
                       Call_parse_stmt(Block(context))>>)
    ELSE R(advance(s), Ok(Stmt(loc, "Block", <<>>, stmts)), <<>>)

parse_block(context, s) ==
    LET kw == expect(s, {"LBrace"}) IN
    IF ~kw.ok THEN Fail(s, kw.err)
    ELSE parse_block_loop(context, kw.loc, <<>>, kw.s)

\* parse_block that keeps the statements parsed before a failure
parse_block_next_partial(frame, rt, s) ==
    IF rt.tag = "err" THEN R(s, Ok(Stmt(frame.data.loc, "Block", <<>>, frame.data.stmts)), <<>>)
    ELSE parse_block_loop(frame.ctx, frame.data.loc, Append(frame.data.stmts, rt.node), s)

\* a statement of the block has returned
parse_block_next(frame, rt, s) ==
    IF rt.tag = "err" THEN R(s, rt, <<>>)
    ELSE parse_block_loop(frame.ctx, frame.data.loc, Append(frame.data.stmts, rt.node), s)

\* the condition of if, unless, while and until
bool_condition(condition) ==
    IF condition.typ # get_type_Bool THEN implicit_cast(condition, get_type_Bool) ELSE condition

parse_if(context, s) ==
    LET kw == expect(s, {"If"}) IN
    IF ~kw.ok THEN Fail(s, kw.err) ELSE
    LET e == parse_expr(kw.s) IN
    IF ~e.ok THEN Fail(e.s, e.err) ELSE
    LET condition == bool_condition(e.expr)
        s2 == advance_if(e.s, {"Do"})
    IN  R(s2, NoRet, <<Frame("parse_if", context, [loc |-> kw.loc, condition |-> condition, branches |-> <<>>]),
                       Call_parse_stmt(context)>>)

\* a branch of the if has returned
parse_if_next(frame, rt, s) ==
    IF rt.tag = "err" THEN R(s, rt, <<>>) ELSE
    LET branches == Append(frame.data.branches, rt.node) IN
    IF Len(branches) = 1 /\ current(s) = "Else"
    THEN R(advance(s), NoRet, <<[frame EXCEPT !.data.branches = branches], Call_parse_stmt(frame.ctx)>>)
    ELSE R(s, Ok(Stmt(frame.data.loc, "If", <<frame.data.condition>>, branches)), <<>>)

parse_unless(context, s) ==
    LET kw == expect(s, {"Unless"}) IN
    IF ~kw.ok THEN Fail(s, kw.err) ELSE
    LET e == parse_expr(kw.s) IN
    IF ~e.ok THEN Fail(e.s, e.err) ELSE
    LET condition == bool_condition(e.expr)
        s2 == advance_if(e.s, {"Do"})
    IN  R(s2, NoRet, <<Frame("parse_unless", context, [loc |-> kw.loc, condition |-> condition]),
                       Call_parse_stmt(context)>>)

parse_unless_return(frame, rt, s) ==
    IF rt.tag = "err" THEN R(s, rt, <<>>)
    ELSE R(s, Ok(Stmt(frame.data.loc, "Unless", <<frame.data.condition>>, <<rt.node>>)), <<>>)

parse_while(context, negate, s) ==
    LET kw == expect(s, {"While", "While"}) IN
    IF ~kw.ok THEN Fail(s, kw.err) ELSE
    LET e == parse_expr(kw.s) IN
    IF ~e.ok THEN Fail(e.s, e.err) ELSE
    LET condition == bool_condition(e.expr)
        s2 == advance_if(e.s, {"Do"})
    IN  R(s2, NoRet, <<Frame("parse_while", context, [loc |-> kw.loc, condition |-> condition, negate |-> negate]),
                       Call_parse_stmt(Loop(context))>>)

parse_while_return(frame, rt, s) ==
    IF rt.tag = "err" THEN R(s, rt, <<>>)
    ELSE R(s, Ok(Stmt(frame.data.loc, IF frame.data.negate THEN "Until" ELSE "While",
                      <<frame.data.condition>>, <<rt.node>>)), <<>>)

\* for_cast that casts whenever the types differ, also to an unresolved type
for_cast_always(init, expr) ==
    IF init.typ # expr.typ THEN implicit_cast(expr, init.typ) ELSE expr

\* the cast of the to- and by-expression of a for
for_cast(init, expr) ==
    IF init.typ # NoType /\ init.typ # expr.typ THEN implicit_cast(expr, init.typ) ELSE expr

\* an optional `kw expr` clause of the for header: the Option<Expr> as a
\* sequence of at most one expression
for_clause(kw, init, s) ==
    IF current(s) = kw
    THEN LET e == parse_expr(advance(s)) IN
         IF ~e.ok THEN [ok |-> FALSE, s |-> e.s, opt |-> <<>>, err |-> e.err]
         ELSE [ok |-> TRUE, s |-> e.s, opt |-> <<for_cast(init, e.expr)>>, err |-> e.err]
    ELSE [ok |-> TRUE, s |-> s, opt |-> <<>>, err |-> UnexpectedToken(0)]

parse_for(context, s) ==
    LET kw == expect(s, {"For"}) IN
    IF ~kw.ok THEN Fail(s, kw.err) ELSE
    LET iter_loc == kw.s.pos
        id == expect_ident(kw.s) IN
    IF ~id.ok THEN Fail(kw.s, id.err) ELSE
    LET eq == expect(id.s, {"Eq"}) IN
    IF ~eq.ok THEN Fail(id.s, eq.err) ELSE
    LET e == parse_expr(eq.s) IN
    IF ~e.ok THEN Fail(e.s, e.err) ELSE
    LET init == e.expr
        limit == for_clause("To", init, e.s) IN
    IF ~limit.ok THEN Fail(limit.s, limit.err) ELSE
    LET step == for_clause("By", init, limit.s) IN
    IF ~step.ok THEN Fail(step.s, step.err) ELSE
    LET s2 == advance_if(step.s, {"Do"}) IN
    R(s2, NoRet, <<Frame("parse_for", context,
                         [loc |-> kw.loc, decl |-> [loc |-> iter_loc, typ |-> init.typ],
                          init |-> init, limit |-> limit.opt, step |-> step.opt]),
                   Call_parse_stmt(Loop(context))>>)

parse_for_return(frame, rt, s) ==
    IF rt.tag = "err" THEN R(s, rt, <<>>)
    ELSE R(s, Ok([kind |-> "For", loc |-> frame.data.loc, decl |-> frame.data.decl,
                  init |-> frame.data.init, limit |-> frame.data.limit,
                  step |-> frame.data.step, kids |-> <<rt.node>>]), <<>>)

\* parse_switchon that hands the marker of an enclosing switchon down to
\* its body instead of a fresh one
parse_switchon_shared(context, s) ==
    LET kw == expect(s, {"SwitchOn"}) IN
    IF ~kw.ok THEN Fail(s, kw.err) ELSE
    LET e == parse_expr(kw.s) IN
    IF ~e.ok THEN Fail(e.s, e.err) ELSE
    LET into == expect(e.s, {"Into"}) IN
    IF ~into.ok THEN Fail(e.s, into.err) ELSE
    LET outer == in_switchon(context)
        default_case == IF outer.some THEN outer.m ELSE Len(into.s.markers) + 1
        s2 == IF outer.some THEN into.s ELSE [into.s EXCEPT !.markers = Append(@, NoLoc)]
    IN  R(s2, NoRet, <<Frame("parse_switchon", context, [loc |-> kw.loc, condition |-> e.expr]),
                       Call_parse_stmt(SwitchOn(default_case, e.expr.typ, context))>>)

parse_switchon(context, s) ==
    LET kw == expect(s, {"SwitchOn"}) IN
    IF ~kw.ok THEN Fail(s, kw.err) ELSE
    LET e == parse_expr(kw.s) IN
    IF ~e.ok THEN Fail(e.s, e.err) ELSE
    LET into == expect(e.s, {"Into"}) IN
    IF ~into.ok THEN Fail(e.s, into.err) ELSE
    LET default_case == Len(into.s.markers) + 1
        s2 == [into.s EXCEPT !.markers = Append(@, NoLoc)]
    IN  R(s2, NoRet, <<Frame("parse_switchon", context, [loc |-> kw.loc, condition |-> e.expr]),
                       Call_parse_stmt(SwitchOn(default_case, e.expr.typ, context))>>)

parse_switchon_return(frame, rt, s) ==
    IF rt.tag = "err" THEN R(s, rt, <<>>)
    ELSE R(s, Ok(Stmt(frame.data.loc, "SwitchOn", <<frame.data.condition>>, <<rt.node>>)), <<>>)

\* the while loop of parse_compound and what follows it
parse_compound_loop(context, loc, stmts, s) ==
    IF current(s) = "Compound"
    THEN R(advance(s), NoRet, <<Frame("parse_compound", context, [loc |-> loc, stmts |-> stmts]),
                                Call_parse_stmt(NoBlock(context))>>)
    ELSE R(s, Ok(Stmt(loc, "Block", <<>>, stmts)), <<>>)

parse_compound(context, left, s) ==
    parse_compound_loop(context, s.pos, <<left>>, s)

\* a statement of the chain has returned
parse_compound_next(frame, rt, s) ==
    IF rt.tag = "err" THEN R(s, rt, <<>>)
    ELSE parse_compound_loop(frame.ctx, frame.data.loc, Append(frame.data.stmts, rt.node), s)

\* parse_stmt: the dispatch on the current token
parse_stmt(context, s) ==
    LET k == current(s) IN
    CASE k = "LBrace" -> parse_block(context, s)
      [] k = "ResultIs" -> parse_resultis(context, s)
      [] k = "Return" -> parse_return(context, s)
      [] k = "If" -> parse_if(context, s)
      [] k = "Unless" -> parse_unless(context, s)
      [] k = "While" -> parse_while(context, FALSE, s)
      [] k = "Until" -> parse_while(context, TRUE, s)
      [] k = "For" -> parse_for(context, s)
      [] k = "SwitchOn" -> parse_switchon(context, s)
      [] k = "Case" -> parse_case(context, s)
      [] k = "Default" -> parse_default_case(context, s)
      [] k = "EndCase" -> parse_endcase(context, s)
      [] OTHER -> parse_expr_stmt(context, s)

\* parse_stmt after its statement has been parsed: the `?` and the check
\* for a compound separator
parse_stmt_return(frame, rt, s) ==
    IF rt.tag = "err" THEN R(s, rt, <<>>)
    ELSE IF current(s) = "Compound" THEN parse_compound(frame.ctx, rt.node, s)
    ELSE R(s, rt, <<>>)

\* ---- the source registry (src/source_file.rs) ----------------------------
\* Option<&String> of SourceFile::line, or the panic of an overflow check
None == [tag |-> "none", text |-> ""]
Some(text) == [tag |-> "some", text |-> text]
Panic == [tag |-> "panic", text |-> ""]
NotCalled == [tag |-> "not called", text |-> ""]

\* SourceFile::line: self.lines.get(line_num - 1), on usize.  For line_num 0
\* the subtraction overflows: a build with overflow checks panics, a build
\* without them wraps to usize::MAX, an index past every line table.
line(table, n, checks) ==
    IF n = 0 THEN (IF checks THEN Panic ELSE None)
    ELSE IF n - 1 < Len(table) THEN Some(table[n]) ELSE None

\* the line table of a file of l lines
LineTable(l) == [i \in 1..l |-> ToString(i)]

Location_new(source_file, ln, column, width) ==
    [source_file_id |-> source_file, line |-> ln, column |-> column, width |-> width]

set_width(l, width) == [l EXCEPT !.width = width]

\* #[derive(PartialEq)] on Location: field by field, over all four fields
Location_eq(a, b) ==
    /\ a.source_file_id = b.source_file_id
    /\ a.line = b.line
    /\ a.column = b.column
    /\ a.width = b.width

SourceIdle ==
    /\ overflow_checks = FALSE
    /\ lines = LineTable(1)
    /\ line_num = 1
    /\ line_result = NotCalled
    /\ location = Location_new(1, 1, 0, 0)
    /\ former = Location_new(1, 1, 0, 0)

\* ---- the driver (src/context.rs) -------------------------------------------
\* A diagnostic with its Location, of which the driver uses the file and the
\* line; n numbers the warnings of one parse, the fatal diagnostic has n = 0.
Diagnostic(sev, f, ln, n) == [sev |-> sev, file |-> f, line |-> ln, n |-> n]

NoOutcome == [ok |-> TRUE, err |-> Diagnostic("error", 0, 1, 0), warnings |-> <<>>]

\* what parsing file f can come to: a tree or a fatal diagnostic, and the
\* warnings collected on the way; the Locations are those of tokens of the
\* file, so their lines are lines of the file
ParseOutcomes(f) ==
    { [ok |-> b,
       err |-> Diagnostic("error", f, Len(lines), 0),
       warnings |-> [i \in 1..k |-> Diagnostic("warning", f, ((i - 1) % Len(lines)) + 1, i)]] :
      b \in BOOLEAN, k \in 0..MaxWarnings }

Event(what, f, n, text) == [what |-> what, file |-> f, n |-> n, text |-> text]

\* highlight_error: prints the diagnostic against its source line;
\* file.line(loc.line()).unwrap() panics when the line is absent
highlight_error(err) ==
    LET l == line(lines, err.line, overflow_checks) IN
    IF l.tag = "some"
    THEN [ok |-> TRUE, printed |-> <<Event(err.sev, err.file, err.n, l.text)>>]
    ELSE [ok |-> FALSE, printed |-> <<>>]

\* compile that gives up on the files left when a parse fails
parse_returned_abort(o) == IF o.ok THEN "warnings" ELSE "end"

\* `if let Err(err) = parser.parse()`: where compile goes on
parse_returned(o) == IF o.ok THEN "warnings" ELSE "error"

\* compile that shows the warnings of the files that parsed only
rendered_warnings_on_success(o) == IF o.ok THEN o.warnings ELSE <<>>

\* `for warning in parser.warnings()`
rendered_warnings(o) == o.warnings

DriverIdle ==
    /\ source_files = 0
    /\ pc = "idle"
    /\ file = 0
    /\ had_errors = FALSE
    /\ outcome = NoOutcome
    /\ next_warning = 1
    /\ parses = <<>>
    /\ trace = <<>>
    /\ result = "none"

\* ---- the machine -----------------------------------------------------------
\* The callers of parse_stmt outside this file: a test or driver with no
\* context, a function body, and a valof body nested in a switchon of an
\* outer valof.  Cell 1 is the function's, cells 2
\* and 3 the valofs'; marker 1 is the enclosing switchon's.
InitContexts ==
    { Empty,
      Function(1),
      ValOf(3, Block(SwitchOn(1, "Int", Loop(ValOf(2, Block(Function(1))))))) }

\* The vocabulary of the texts with switchons that follow one another.
SiblingVocabulary == {"LBrace", "SwitchOn", "Into", "Default", "Colon", "EndCase", "Semicolon", "IntLit"}

\* The source texts explored are those written in one of these vocabularies.
Vocabularies ==
    { {"For", "Ident", "Eq", "To", "By", "Do", "IntLit", "BoolLit"},
      {"LBrace", "RBrace", "Compound", "Semicolon", "EndCase", "IntLit", "Call"},
      {"ResultIs", "Return", "LBrace", "RBrace", "Semicolon", "IntLit", "BoolLit", "Ident"},
      {"ResultIs", "Return", "Compound", "Semicolon", "IntLit", "BoolLit"},
      {"SwitchOn", "Into", "Case", "Default", "EndCase", "Colon", "LBrace", "RBrace",
       "IntLit", "Ident"},
      {"SwitchOn", "Into", "Case", "Default", "EndCase", "Colon", "Compound", "IntLit", "Ident"},
      {"If", "Else", "Do", "Default", "Colon", "IntLit", "BoolLit"},
      {"While", "Until", "Do", "Default", "Colon", "EndCase", "IntLit", "BoolLit"},
      {"Unless", "Do", "Case", "Default", "Colon", "IntLit", "BoolLit"},
      SiblingVocabulary }

\* The vocabularies of the texts that are parsed to the end, however many
\* statements they hold.
LoopVocabularies ==
    { {"LBrace", "RBrace", "Compound", "Semicolon", "Call", "IntLit"},
      {"If", "Else", "Unless", "While", "Until", "Do", "Compound", "Call"},
      {"For", "Ident", "Eq", "To", "IntLit", "Compound"},
      {"SwitchOn", "Into", "Case", "Default", "Colon", "EndCase", "IntLit", "LBrace", "RBrace"},
      {"ResultIs", "Return", "LBrace", "RBrace", "Semicolon", "IntLit"} }

\* how many tokens the lexer delivers before the end-of-file token, and how
\* many parse_stmt calls one parse makes, in the texts explored
TokenBudget ==
    IF vocab = SiblingVocabulary THEN MaxSiblingTokens
    ELSE IF vocab \in LoopVocabularies THEN MaxLoopTokens
    ELSE MaxTokens
StmtBudget ==
    IF vocab = SiblingVocabulary THEN MaxSiblingStmts
    ELSE IF vocab \in LoopVocabularies THEN MaxLoopTokens + 2
    ELSE MaxStmts

Init ==
    /\ vocab \in Vocabularies
    /\ toks = <<>>
    /\ pos = 1
    /\ entry \in InitContexts
    /\ stack = <<Call_parse_stmt(entry)>>
    /\ ret = NoRet
    /\ cells = [c \in 1..3 |-> Unset]
    /\ markers = <<NoLoc>>
    /\ warnings = <<>>
    /\ nstmts = 1
    /\ SourceIdle
    /\ DriverIdle

S == [pos |-> pos, cells |-> cells, markers |-> markers, warnings |-> warnings]
Top == stack[Len(stack)]
Front(q) == SubSeq(q, 1, Len(q) - 1)
Done == stack = <<>>

\* the parse function ran out of delivered tokens
Starved(r) == r.s.pos > Len(toks) /\ ~Ended

NewStmts(push) == Cardinality({i \in DOMAIN push : push[i].fn = "parse_stmt"})

\* the parse function of activation record frame goes on with the result rt
\* of the parse_stmt call it was waiting for
Resume(frame, rt, s) ==
    CASE frame.fn = "parse_stmt" -> parse_stmt_return(frame, rt, s)
      [] frame.fn = "parse_compound" -> parse_compound_next(frame, rt, s)
      [] frame.fn = "parse_block" -> parse_block_next(frame, rt, s)
      [] frame.fn = "parse_if" -> parse_if_next(frame, rt, s)
      [] frame.fn = "parse_unless" -> parse_unless_return(frame, rt, s)
      [] frame.fn = "parse_while" -> parse_while_return(frame, rt, s)
      [] frame.fn = "parse_for" -> parse_for_return(frame, rt, s)
      [] OTHER -> parse_switchon_return(frame, rt, s)

\* the `?` after every nested call: a diagnostic travels up through the
\* waiting parse functions, each of which goes on with it, until one of them
\* does something else than return a diagnostic or none is left
RECURSIVE Unwind(_, _)
Unwind(stk, r) ==
    IF stk = <<>> \/ r.ret.tag # "err" THEN [stack |-> stk \o r.push, r |-> r]
    ELSE Unwind(Front(stk), Resume(stk[Len(stk)], r.ret, r.s))

\* the machine takes over the outcome r of a parse function; base is the
\* stack below the activation records r leaves
Commit(base, r) ==
    /\ ~Starved(r)
    /\ nstmts + NewStmts(r.push) <= StmtBudget
    /\ LET u == Unwind(base, r) IN
        /\ pos' = u.r.s.pos
        /\ cells' = u.r.s.cells
        /\ markers' = u.r.s.markers
        /\ warnings' = u.r.s.warnings
        /\ ret' = u.r.ret
        /\ stack' = u.stack
    /\ nstmts' = nstmts + NewStmts(r.push)
    /\ UNCHANGED <<vocab, entry, toks, sourceVars, driverVars>>

Dispatching(kinds) ==
    /\ ~Done
    /\ ret = NoRet
    /\ Top.fn = "parse_stmt"
    /\ current(S) \in kinds

Returning(fn) ==
    /\ ~Done
    /\ ret # NoRet
    /\ Top.fn = fn

ParseBlock == Dispatching({"LBrace"}) /\ Commit(stack, parse_stmt(Top.ctx, S))
ParseResultIs == Dispatching({"ResultIs"}) /\ Commit(stack, parse_stmt(Top.ctx, S))
ParseReturn == Dispatching({"Return"}) /\ Commit(stack, parse_stmt(Top.ctx, S))
ParseIf == Dispatching({"If"}) /\ Commit(stack, parse_stmt(Top.ctx, S))
ParseUnless == Dispatching({"Unless"}) /\ Commit(stack, parse_stmt(Top.ctx, S))
ParseWhile == Dispatching({"While", "Until"}) /\ Commit(stack, parse_stmt(Top.ctx, S))
ParseFor == Dispatching({"For"}) /\ Commit(stack, parse_stmt(Top.ctx, S))
ParseSwitchOn == Dispatching({"SwitchOn"}) /\ Commit(stack, parse_stmt(Top.ctx, S))
ParseCase == Dispatching({"Case"}) /\ Commit(stack, parse_stmt(Top.ctx, S))
ParseDefaultCase == Dispatching({"Default"}) /\ Commit(stack, parse_stmt(Top.ctx, S))
ParseEndCase == Dispatching({"EndCase"}) /\ Commit(stack, parse_stmt(Top.ctx, S))
ParseExprStmt ==
    /\ Dispatching(Tokens \ {"LBrace", "ResultIs", "Return", "If", "Unless", "While", "Until",
                             "For", "SwitchOn", "Case", "Default", "EndCase"})
    /\ Commit(stack, parse_stmt(Top.ctx, S))

ParseStmtReturn == Returning("parse_stmt") /\ Commit(Front(stack), parse_stmt_return(Top, ret, S))
ParseCompoundNext == Returning("parse_compound") /\ Commit(Front(stack), parse_compound_next(Top, ret, S))
ParseBlockNext == Returning("parse_block") /\ Commit(Front(stack), parse_block_next(Top, ret, S))
ParseIfNext == Returning("parse_if") /\ Commit(Front(stack), parse_if_next(Top, ret, S))
ParseUnlessReturn == Returning("parse_unless") /\ Commit(Front(stack), parse_unless_return(Top, ret, S))
ParseWhileReturn == Returning("parse_while") /\ Commit(Front(stack), parse_while_return(Top, ret, S))
ParseForReturn == Returning("parse_for") /\ Commit(Front(stack), parse_for_return(Top, ret, S))
ParseSwitchOnReturn == Returning("parse_switchon") /\ Commit(Front(stack), parse_switchon_return(Top, ret, S))

\* the outcome of the parse function that runs next
Pending ==
    IF Done THEN R(S, ret, <<>>)
    ELSE IF ret = NoRet
    THEN IF current(S) = "Pending" THEN R(S, NoRet, <<>>) ELSE parse_stmt(Top.ctx, S)
    ELSE Resume(Top, ret, S)

\* the lexer delivers the next token when the parser looks at it; the stream
\* ends in an end-of-file token
Lex ==
    /\ ~Done
    /\ Starved(Pending)
    /\ \E t \in (IF Len(toks) < TokenBudget THEN vocab \cup {"Eof"} ELSE {"Eof"}) : toks' = Append(toks, t)
    /\ UNCHANGED <<vocab, entry, pos, stack, ret, cells, markers, warnings, nstmts>>
    /\ UNCHANGED <<sourceVars, driverVars>>

Next ==
    \/ Lex
    \/ ParseBlock \/ ParseResultIs \/ ParseReturn \/ ParseIf \/ ParseUnless
    \/ ParseWhile \/ ParseFor \/ ParseSwitchOn \/ ParseCase \/ ParseDefaultCase
    \/ ParseEndCase \/ ParseExprStmt
    \/ ParseStmtReturn \/ ParseCompoundNext \/ ParseBlockNext \/ ParseIfNext
    \/ ParseUnlessReturn \/ ParseWhileReturn \/ ParseForReturn \/ ParseSwitchOnReturn

Spec == Init /\ [][Next]_vars

\* parse_stmt on whole texts: the lexer goes on to the end-of-file token and
\* the parser runs until parse_stmt has returned to its caller
InitWhole ==
    /\ vocab \in LoopVocabularies
    /\ toks = <<>>
    /\ pos = 1
    /\ entry \in InitContexts
    /\ stack = <<Call_parse_stmt(entry)>>
    /\ ret = NoRet
    /\ cells = [c \in 1..3 |-> Unset]
    /\ markers = <<NoLoc>>
    /\ warnings = <<>>
    /\ nstmts = 1
    /\ SourceIdle
    /\ DriverIdle

SpecWhole == InitWhole /\ [][Next]_vars

\* the parser at rest, for the specifications of the other components
ParserIdle ==
    /\ vocab = {}
    /\ toks = <<>>
    /\ pos = 1
    /\ entry = Empty
    /\ stack = <<>>
    /\ ret = NoRet
    /\ cells = [c \in 1..3 |-> Unset]
    /\ markers = <<NoLoc>>
    /\ warnings = <<>>
    /\ nstmts = 1

\* ---- the source registry as a machine ----------------------------------------
Locations ==
    { Location_new(f, ln, column, width) :
        f \in 1..MaxFiles, ln \in 1..MaxLines, column \in 0..MaxWidth, width \in 0..MaxWidth }

InitSource ==
    /\ ParserIdle
    /\ DriverIdle
    /\ overflow_checks \in BOOLEAN
    /\ lines \in {LineTable(l) : l \in 1..MaxLines}
    /\ line_num = 1
    /\ line_result = NotCalled
    /\ location \in Locations
    /\ former = location

\* a panic ends the program
Running == line_result # Panic

\* a caller asks for a line
Line ==
    /\ Running
    /\ \E n \in 0..(Len(lines) + 1) :
          /\ line_num' = n
          /\ line_result' = line(lines, n, overflow_checks)
    /\ UNCHANGED <<overflow_checks, lines, location, former, parserVars, driverVars>>

\* Location derives Clone
Clone ==
    /\ Running
    /\ former' = location
    /\ UNCHANGED <<overflow_checks, lines, line_num, line_result, location, parserVars, driverVars>>

SetWidth ==
    /\ Running
    /\ \E width \in 0..MaxWidth : location' = set_width(location, width)
    /\ UNCHANGED <<overflow_checks, lines, line_num, line_result, former, parserVars, driverVars>>

NextSource == Line \/ Clone \/ SetWidth

SpecSource == InitSource /\ [][NextSource]_vars

\* ---- the driver as a machine ---------------------------------------------------
InitCompile ==
    /\ ParserIdle
    /\ overflow_checks \in BOOLEAN
    /\ lines \in {LineTable(l) : l \in 1..MaxLines}
    /\ line_num = 1
    /\ line_result = NotCalled
    /\ location = Location_new(1, 1, 0, 0)
    /\ former = Location_new(1, 1, 0, 0)
    /\ source_files \in 0..MaxFiles
    /\ pc = "start"
    /\ file = 0
    /\ had_errors = FALSE
    /\ outcome = NoOutcome
    /\ next_warning = 1
    /\ parses = <<>>
    /\ trace = <<>>
    /\ result = "none"

\* `if self.source_files.is_empty() { self.fatal_error("no input files.") }`
NoInputFiles ==
    /\ pc = "start"
    /\ source_files = 0
    /\ pc' = "terminated"
    /\ result' = "fatal error"
    /\ UNCHANGED <<source_files, file, had_errors, outcome, next_warning, parses, trace>>
    /\ UNCHANGED <<parserVars, sourceVars>>

EnterLoop ==
    /\ pc = "start"
    /\ source_files > 0
    /\ had_errors' = FALSE
    /\ file' = 1
    /\ pc' = "parse"
    /\ UNCHANGED <<source_files, outcome, next_warning, parses, trace, result>>
    /\ UNCHANGED <<parserVars, sourceVars>>

\* a new parser for the file, the status line, and parser.parse()
Parse ==
    /\ pc = "parse"
    /\ \E o \in ParseOutcomes(file) :
          /\ outcome' = o
          /\ parses' = Append(parses, [file |-> file, ok |-> o.ok, err |-> o.err, warnings |-> o.warnings])
          /\ pc' = parse_returned(o)
    /\ trace' = trace \o <<Event("Compiling", file, 0, ""), Event("parse", file, 0, "")>>
    /\ next_warning' = 1
    /\ UNCHANGED <<source_files, file, had_errors, result>>
    /\ UNCHANGED <<parserVars, sourceVars>>

\* `self.highlight_error(err); had_errors = true;`
HighlightError ==
    /\ pc = "error"
    /\ LET h == highlight_error(outcome.err) IN
       IF h.ok
       THEN trace' = trace \o h.printed /\ had_errors' = TRUE /\ pc' = "warnings"
       ELSE pc' = "panicked" /\ UNCHANGED <<trace, had_errors>>
    /\ UNCHANGED <<source_files, file, outcome, next_warning, parses, result>>
    /\ UNCHANGED <<parserVars, sourceVars>>

\* one iteration of `for warning in parser.warnings()`
HighlightWarning ==
    /\ pc = "warnings"
    /\ next_warning <= Len(rendered_warnings(outcome))
    /\ LET h == highlight_error(rendered_warnings(outcome)[next_warning]) IN
       IF h.ok
       THEN trace' = trace \o h.printed /\ next_warning' = next_warning + 1 /\ pc' = pc
       ELSE pc' = "panicked" /\ UNCHANGED <<trace, next_warning>>
    /\ UNCHANGED <<source_files, file, had_errors, outcome, parses, result>>
    /\ UNCHANGED <<parserVars, sourceVars>>

\* the end of the body of `for file in self.source_files.values()`
NextFile ==
    /\ pc = "warnings"
    /\ next_warning > Len(rendered_warnings(outcome))
    /\ IF file < source_files
       THEN file' = file + 1 /\ pc' = "parse"
       ELSE file' = file /\ pc' = "end"
    /\ UNCHANGED <<source_files, had_errors, outcome, next_warning, parses, trace, result>>
    /\ UNCHANGED <<parserVars, sourceVars>>

\* `if had_errors { return Err(()) } ... Ok(())`
Return ==
    /\ pc = "end"
    /\ result' = IF had_errors THEN "Err" ELSE "Ok"
    /\ pc' = "done"
    /\ UNCHANGED <<source_files, file, had_errors, outcome, next_warning, parses, trace>>
    /\ UNCHANGED <<parserVars, sourceVars>>

NextCompile ==
    \/ NoInputFiles \/ EnterLoop \/ Parse \/ HighlightError \/ HighlightWarning
    \/ NextFile \/ Return

\* compile is sequential code: it goes on until it returns
SpecCompile == InitCompile /\ [][NextCompile]_vars /\ WF_vars(NextCompile)

\* ---- properties -----------------------------------------------------------
\* the delivered token at index i
Tok(i) == IF i \in 1..Len(toks) THEN toks[i] ELSE "Pending"

\* this step is parse_stmt dispatching on a token of kinds and running the
\* parse function it selects
HandlerStep(kinds) ==
    /\ Dispatching(kinds)
    /\ toks' = toks
    /\ <<pos, ret, stack>>' # <<pos, ret, stack>>

InnermostIs(context, k) == context # Empty /\ Head(context).k = k

\* C1: in a switchon the first `default:` is accepted and records its
\* location in the marker; every later `default:` that resolves to the same
\* SwitchOn frame fails with a Redefinition carrying the recorded location,
\* and a recorded location never changes.
C1_SingleDefault ==
    [][ /\ \A m \in DOMAIN markers : markers[m] # NoLoc => markers'[m] = markers[m]
        /\ (HandlerStep({"Default"}) /\ Tok(pos + 1) = "Colon" /\ in_switchon(Top.ctx).some) =>
              LET m == in_switchon(Top.ctx).m IN
              IF markers[m] = NoLoc
              THEN ret' = Ok(Stmt(pos, "DefaultCase", <<>>, <<>>)) /\ markers'[m] = pos
              ELSE /\ ret' = Err(Redefinition(markers[m], "default case", pos))
                   /\ markers'[m] = markers[m]
                   /\ markers[m] < pos ]_vars

\* a second `default:` of one switchon was rejected, citing the first
C1_Witness ==
    /\ ret.tag = "err"
    /\ ret.err.kind = "Redefinition"
    /\ \E m \in DOMAIN markers : markers[m] = ret.err.prev /\ Tok(markers[m]) = "Default"
    /\ Tok(ret.err.loc) = "Default"
    /\ ret.err.prev < ret.err.loc

\* C2: `until` is parsed like `while`: parse_stmt does not reject the `until`
\* keyword, and goes on to parse the body under a new Loop frame with the
\* condition coerced to boolean, as the negated form of the construct.
C2_UntilLikeWhile ==
    [][ HandlerStep({"While", "Until"}) =>
          /\ ~(ret'.tag = "err" /\ ret'.err = UnexpectedToken(pos))
          /\ ret' = NoRet =>
                LET f == stack'[Len(stack') - 1] IN
                /\ f.fn = "parse_while"
                /\ f.data.negate = (Tok(pos) = "Until")
                /\ f.data.condition.typ = "Bool"
                /\ stack'[Len(stack')].ctx = Loop(Top.ctx) ]_vars

\* the first frame of context that is not of one of the kinds skipped, 0 if none
FirstOther(context, skipped) ==
    LET others == {i \in 1..Len(context) : context[i].k \notin skipped} IN
    IF others = {} THEN 0 ELSE CHOOSE i \in others : \A j \in others : i <= j

NearestIsBlock(context, skipped) ==
    LET i == FirstOther(context, skipped) IN i # 0 /\ context[i].k = "Block"

\* C3 as stated: a terminator is required iff, skipping NoBlock, Loop and
\* SwitchOn frames, the first other frame is a Block.
C3_Original ==
    \A i \in DOMAIN stack :
        require_semicolon(stack[i].ctx) = NearestIsBlock(stack[i].ctx, {"NoBlock", "Loop", "SwitchOn"})

\* C3 amended: a terminator is required iff, skipping Loop and SwitchOn
\* frames only, the first other frame is a Block; a NoBlock frame requires
\* none, whatever its parent.
C3_TerminatorRule ==
    \A i \in DOMAIN stack :
        require_semicolon(stack[i].ctx) = NearestIsBlock(stack[i].ctx, {"Loop", "SwitchOn"})

\* a statement of a compound chain is parsed in a NoBlock frame whose parent is a Block
C3_Witness ==
    \E i \in DOMAIN stack :
        /\ Len(stack[i].ctx) >= 2
        /\ stack[i].ctx[1].k = "NoBlock"
        /\ stack[i].ctx[2].k = "Block"
        /\ stack[i].fn = "parse_stmt"

\* the cell a resultis (return) parsed in this step targets, 0 if none
TargetCell ==
    IF HandlerStep({"ResultIs"}) THEN last_valof_type(Top.ctx)
    ELSE IF HandlerStep({"Return"}) THEN function_return_type(Top.ctx)
    ELSE 0

\* C4: a valof/function cell changes only monotonically: it is bound, from
\* empty, only by a resultis/return that targets it, to the type of that
\* statement's expression; it is never reset to empty, and once it holds a
\* fixed type no step changes it, whether the statement succeeds or fails.
C4_CellMonotonic ==
    [][ \A c \in DOMAIN cells :
          /\ cells[c] # Unset => cells'[c] # Unset
          /\ cells[c] \in Types => cells'[c] = cells[c]
          /\ cells'[c] # cells[c] => TargetCell = c /\ cells'[c] = TokenType(Tok(pos + 1)) ]_vars

\* in a function body a second return, of another type than the one the cell
\* is fixed to, failed at its terminator
C4_Witness ==
    /\ entry = Function(1)
    /\ cells[1] \in Types
    /\ ret.tag = "err"
    /\ ret.err.kind = "UnexpectedToken"
    /\ ret.err.loc > 5
    /\ Tok(ret.err.loc - 2) = "Return"
    /\ TokenType(Tok(ret.err.loc - 1)) # cells[1]
    /\ TokenType(Tok(3)) = cells[1]

\* C5: a resultis/return parsed when its cell is fixed to a type T has its
\* expression wrapped in exactly one implicit cast of type T if the
\* expression's type differs from T and left as it is otherwise; the
\* expression of the first occurrence (empty cell) is never wrapped.
C5_CastOnMismatch ==
    [][ (TargetCell # 0 /\ ret'.tag = "ok") =>
          LET T == cells[TargetCell]
              a == Atom(Tok(pos + 1), pos + 1)
              e == ret'.node.exprs[1]
          IN  /\ (T \in Types /\ a.typ # T) =>
                    e.kind = "ImplicitCast" /\ e.typ = T /\ e.inner = a /\ NumCasts(e) = 1
              /\ (T \in Types /\ a.typ = T) => e = a
              /\ T = Unset => e = a ]_vars

\* a later resultis/return came back with its expression cast to the fixed type
C5_Witness ==
    /\ ret.tag = "ok"
    /\ ret.node.kind \in {"ResultIs", "Return"}
    /\ ret.node.exprs[1].kind = "ImplicitCast"
    /\ ret.node.exprs[1].typ \in Types
    /\ ret.node.exprs[1].inner.typ # ret.node.exprs[1].typ

\* the statement that starts at the cursor has its own tokens in place
WellFormedLeaf ==
    CASE Tok(pos) = "Case" -> Tok(pos + 1) \in ExprTokens /\ Tok(pos + 2) = "Colon"
      [] Tok(pos) = "Default" -> Tok(pos + 1) = "Colon"
      [] Tok(pos) \in {"ResultIs", "Return"} -> Tok(pos + 1) \in ExprTokens
      [] OTHER -> TRUE

TopLevelDiagnostic ==
    CASE Tok(pos) = "Case" -> InvalidStmt("case", "switchon", pos)
      [] Tok(pos) = "Default" -> InvalidStmt("default", "switchon", pos)
      [] Tok(pos) = "EndCase" -> InvalidStmt("endcase", "switchon", pos)
      [] OTHER -> InvalidStmt("resultis", "valof", pos)

\* C6: with no context at all, `endcase`, `case E:`, `default:` and
\* `resultis E` never return a statement node, and each fails with the
\* InvalidStmt diagnostic naming its keyword and the construct it needs,
\* located at the keyword.
C6_TopLevelInvalid ==
    [][ (HandlerStep({"EndCase", "Case", "Default", "ResultIs"}) /\ Top.ctx = Empty) =>
          /\ ret'.tag = "err"
          /\ WellFormedLeaf => ret'.err = TopLevelDiagnostic ]_vars

\* a well-formed `case E:` at top level was rejected
C6_Witness ==
    /\ entry = Empty
    /\ Tok(1) = "Case"
    /\ pos = 4
    /\ ret = Err(InvalidStmt("case", "switchon", 1))

\* the Option<Expr> a to/by clause of a for yields under a rule for the cast
ForClause(present, init, at, castUnresolved) ==
    IF ~present THEN <<>>
    ELSE LET a == Atom(Tok(at), at) IN
         IF a.typ # init.typ /\ (castUnresolved \/ init.typ # NoType)
         THEN <<[kind |-> "ImplicitCast", typ |-> init.typ, se |-> a.se, loc |-> at, inner |-> a]>>
         ELSE <<a>>

\* the header data of a for that starts at token l, under a rule for the cast
ForHeaderOK(d, castUnresolved) ==
    LET l == d.loc
        init == Atom(Tok(l + 3), l + 3)
        hasTo == Tok(l + 4) = "To"
        byAt == IF hasTo THEN l + 6 ELSE l + 4
        hasBy == Tok(byAt) = "By"
    IN  /\ d.init = init
        /\ d.decl = [loc |-> l + 1, typ |-> init.typ]
        /\ d.limit = ForClause(hasTo, init, l + 5, castUnresolved)
        /\ d.step = ForClause(hasBy, init, byAt + 1, castUnresolved)

ForHeaders(castUnresolved) ==
    /\ \A i \in DOMAIN stack : stack[i].fn = "parse_for" => ForHeaderOK(stack[i].data, castUnresolved)
    /\ (ret.tag = "ok" /\ ret.node.kind = "For") => ForHeaderOK(ret.node, castUnresolved)

\* C7 as stated: for every combination of resolved or unresolved types, the
\* to- and the by-expression are each wrapped in one cast to E1's type iff
\* their type differs from E1's.
C7_Original == ForHeaders(TRUE)

\* C7 amended: the to- and the by-expression are each, independently,
\* wrapped in exactly one implicit cast to E1's type iff E1's type is
\* resolved and differs from theirs; E1 and the type of the loop variable are
\* as parsed.
C7_ForCasts == ForHeaders(FALSE)

\* a for header with a to-expression that was cast and a by-expression that was not
C7_Witness ==
    \E i \in DOMAIN stack :
        /\ stack[i].fn = "parse_for"
        /\ Len(stack[i].data.limit) = 1
        /\ Len(stack[i].data.step) = 1
        /\ stack[i].data.limit[1].kind = "ImplicitCast"
        /\ stack[i].data.step[1].kind = "Atom"

TerminatorTaking == ExprTokens \cup {"ResultIs", "Return", "EndCase"}
LeafLen(t) == IF t \in {"ResultIs", "Return"} THEN 2 ELSE 1
HasBlock(context) == \E i \in 1..Len(context) : context[i].k = "Block"

\* the statement at the cursor is rejected for no other reason than its terminator
LeafValid(context) ==
    /\ WellFormedLeaf
    /\ Tok(pos) = "ResultIs" => last_valof_type(context) # 0
    /\ Tok(pos) = "Return" => function_return_type(context) # 0

\* C8: an expression statement, resultis, return or endcase directly inside
\* a block must be followed by a terminator, which it consumes, and fails on
\* the token found in its place otherwise; outside any block the same
\* statements, alone or chained with the compound separator, are accepted
\* without a terminator and consume none.
C8_Terminators ==
    [][ HandlerStep(TerminatorTaking) =>
          LET n == LeafLen(Tok(pos)) IN
          /\ InnermostIs(Top.ctx, "Block") =>
                /\ ret'.tag = "ok" => Tok(pos + n) = "Semicolon" /\ pos' = pos + n + 1
                /\ (LeafValid(Top.ctx) /\ Tok(pos + n) # "Semicolon") =>
                        ret' = Err(UnexpectedToken(pos + n))
          /\ ~HasBlock(Top.ctx) =>
                /\ ret'.tag = "ok" => pos' = pos + n
                /\ (ret'.tag = "err" /\ ret'.err.kind = "UnexpectedToken") => ret'.err.loc < pos + n
                /\ LeafValid(Top.ctx) /\ (Tok(pos) = "EndCase" => in_switchon(Top.ctx).some)
                        => ret'.tag = "ok" ]_vars

\* a statement directly inside a block came back after consuming its terminator
C8_Witness ==
    /\ ~Done
    /\ InnermostIs(Top.ctx, "Block")
    /\ ret.tag = "ok"
    /\ ret.node.kind \in {"Expr", "ResultIs", "Return", "EndCase"}
    /\ Tok(pos - 1) = "Semicolon"

\* C9: in a compound chain written directly inside a block no statement is
\* individually terminated: a statement followed by the compound separator
\* is accepted as it is, without a terminator between them.
C9_ChainInBlock ==
    [][ (HandlerStep(ExprTokens) /\ InnermostIs(Top.ctx, "Block") /\ Tok(pos + 1) = "Compound") =>
          ret'.tag = "ok" /\ pos' = pos + 1 ]_vars

\* C10: an expression statement without side effect adds exactly one warning
\* and one with a side effect adds none; nothing else adds a warning; the
\* statement comes back as an expression-statement node unless its
\* terminator is missing.
C10_OneWarning ==
    [][ /\ warnings' # warnings => HandlerStep(ExprTokens)
        /\ HandlerStep(ExprTokens) =>
              LET a == Atom(Tok(pos), pos) IN
              /\ warnings' = IF a.se THEN warnings ELSE Append(warnings, ExprWithoutSideEffect(pos))
              /\ ret' = IF require_semicolon(Top.ctx) /\ Tok(pos + 1) # "Semicolon"
                        THEN Err(UnexpectedToken(pos + 1))
                        ELSE Ok(Stmt(pos, "Expr", <<a>>, <<>>)) ]_vars

\* an expression statement without side effect came back as a node, with its warning
C10_Witness ==
    /\ ret.tag = "ok"
    /\ ret.node.kind = "Expr"
    /\ ~ret.node.exprs[1].se
    /\ warnings = <<ExprWithoutSideEffect(ret.node.loc)>>

\* the innermost frame of kind k in context, 0 if there is none
Nearest(context, k) ==
    LET is == {i \in 1..Len(context) : context[i].k = k} IN
    IF is = {} THEN 0 ELSE CHOOSE i \in is : \A j \in is : i <= j

\* the cell of the frame Nearest finds, 0 if there is none
NearestCell(context, k) == IF Nearest(context, k) = 0 THEN 0 ELSE context[Nearest(context, k)].id

\* C15: a return binds the cell of the Function frame at the root of its
\* chain, whatever frames lie in between, and leaves every other cell
\* unchanged; a resultis binds the cell of the innermost ValOf frame and leaves
\* every other cell unchanged; a resultis with no ValOf frame in its chain
\* fails with InvalidStmt(resultis, valof) and changes no cell.
C15_TargetCells ==
    [][ /\ (HandlerStep({"Return"}) /\ Tok(pos + 1) \in ExprTokens /\ NearestCell(Top.ctx, "Function") # 0) =>
              LET c == NearestCell(Top.ctx, "Function") IN
              /\ Top.ctx[Len(Top.ctx)].id = c
              /\ \A d \in DOMAIN cells : d # c => cells'[d] = cells[d]
              /\ cells[c] = Unset => cells'[c] = TokenType(Tok(pos + 1))
              /\ ~(ret'.tag = "err" /\ ret'.err.kind = "InvalidStmt")
        /\ (HandlerStep({"ResultIs"}) /\ Tok(pos + 1) \in ExprTokens) =>
              LET c == NearestCell(Top.ctx, "ValOf") IN
              IF c # 0
              THEN /\ \A d \in DOMAIN cells : d # c => cells'[d] = cells[d]
                   /\ cells[c] = Unset => cells'[c] = TokenType(Tok(pos + 1))
                   /\ ~(ret'.tag = "err" /\ ret'.err.kind = "InvalidStmt")
              ELSE /\ ret' = Err(InvalidStmt("resultis", "valof", pos))
                   /\ cells' = cells ]_vars

\* under the valof nested in a switchon, a loop, an outer valof and the
\* function, a return and a resultis have bound the function's cell and the
\* inner valof's cell, and left the outer valof's cell empty
C15_Witness ==
    /\ Len(entry) = 7
    /\ ret.tag = "ok"
    /\ ret.node.kind \in {"ResultIs", "Return"}
    /\ cells[1] # Unset
    /\ cells[2] = Unset
    /\ cells[3] # Unset

\* C16: a well-formed `case E:` whose chain has a SwitchOn frame is accepted,
\* with E wrapped in exactly one implicit cast to the condition type of the
\* innermost SwitchOn frame if that type is known and differs from E's type,
\* and with E as parsed otherwise; with no SwitchOn frame in the chain it
\* fails with InvalidStmt(case, switchon) at the keyword.
C16_CaseLabel ==
    [][ (HandlerStep({"Case"}) /\ Tok(pos + 1) \in ExprTokens /\ Tok(pos + 2) = "Colon") =>
          LET i == Nearest(Top.ctx, "SwitchOn")
              E == Atom(Tok(pos + 1), pos + 1)
          IN  IF i = 0 THEN ret' = Err(InvalidStmt("case", "switchon", pos))
              ELSE LET ct == Top.ctx[i].ct IN
                   /\ ret'.tag = "ok"
                   /\ ret'.node.kind = "Case"
                   /\ ret'.node.loc = pos
                   /\ pos' = pos + 3
                   /\ IF ct \in Types /\ ct # E.typ
                      THEN /\ NumCasts(ret'.node.exprs[1]) = 1
                           /\ ret'.node.exprs[1].typ = ct
                           /\ ret'.node.exprs[1].inner = E
                      ELSE ret'.node.exprs[1] = E ]_vars

\* a case label of another resolved type than the condition came back cast
\* to the condition type
C16_Witness ==
    /\ ret.tag = "ok"
    /\ ret.node.kind = "Case"
    /\ ret.node.exprs[1].kind = "ImplicitCast"
    /\ ret.node.exprs[1].typ = "Int"
    /\ ret.node.exprs[1].inner.typ = "Bool"

\* the kinds of the frames of a context chain, innermost first
Kinds(context) == [i \in 1..Len(context) |-> context[i].k]

\* the frame the construct of activation record j opened for its body: none
\* for an if or an unless, and one per compound chain, a chain being a run
\* of statements joined by separators (perChain), or else one per separator
OpenedBy(j, perChain) ==
    CASE stack[j].fn = "parse_block" -> <<"Block">>
      [] stack[j].fn \in {"parse_while", "parse_for"} -> <<"Loop">>
      [] stack[j].fn = "parse_switchon" -> <<"SwitchOn">>
      [] stack[j].fn = "parse_compound" ->
            IF perChain /\ j > 1 /\ stack[j - 1].fn = "parse_compound" THEN <<>> ELSE <<"NoBlock">>
      [] OTHER -> <<>>

\* the frames of the constructs open below activation record i, innermost first
RECURSIVE OpenFrames(_, _)
OpenFrames(i, perChain) ==
    IF i = 1 THEN <<>> ELSE OpenedBy(i - 1, perChain) \o OpenFrames(i - 1, perChain)

\* C17: the chain seen by a statement being parsed is that of the caller
\* extended by exactly one frame per open block, loop body, switchon body and
\* compound chain, in nesting order, with none for if/unless; the frames of
\* constructs that have returned are gone.
C17_FramePerConstruct ==
    \A i \in DOMAIN stack :
        stack[i].fn = "parse_stmt" => Kinds(stack[i].ctx) = OpenFrames(i, TRUE) \o Kinds(entry)

\* what the code keeps instead: one NoBlock frame per compound separator
\* passed, every chain after its second statement being parsed as a chain
\* nested in the statement before
ContextOfOpenConstructs ==
    \A i \in DOMAIN stack :
        stack[i].fn = "parse_stmt" => Kinds(stack[i].ctx) = OpenFrames(i, FALSE) \o Kinds(entry)

\* C18: a switchon hands its body a fresh, empty default marker, owned by no
\* other switchon; a `default:` looks at and writes only the marker of the
\* innermost SwitchOn frame of its chain: it is accepted whenever that marker
\* is empty, whatever the markers of the other switchons hold, and when it
\* fails it cites the location recorded in that marker.
C18_OwnMarker ==
    [][ /\ Len(markers') # Len(markers) => HandlerStep({"SwitchOn"})
        /\ (HandlerStep({"SwitchOn"}) /\ Tok(pos + 1) \in ExprTokens /\ Tok(pos + 2) = "Into") =>
              /\ ret' = NoRet
              /\ markers' = Append(markers, NoLoc)
              /\ stack'[Len(stack')].ctx =
                    SwitchOn(Len(markers) + 1, TokenType(Tok(pos + 1)), Top.ctx)
        /\ (HandlerStep({"Default"}) /\ Tok(pos + 1) = "Colon" /\ Nearest(Top.ctx, "SwitchOn") # 0) =>
              LET m == NearestCell(Top.ctx, "SwitchOn") IN
              /\ \A n \in DOMAIN markers : n # m => markers'[n] = markers[n]
              /\ markers[m] = NoLoc => ret'.tag = "ok" /\ markers'[m] = pos
              /\ markers[m] # NoLoc => ret' = Err(Redefinition(markers[m], "default case", pos)) ]_vars

\* in a block, the `default:` of a second switchon was accepted after the
\* first switchon, completed, had accepted its own
C18_Witness ==
    /\ entry = Empty
    /\ ~Done
    /\ Top.ctx = SwitchOn(3, "Int", Block(Empty))
    /\ ret.tag = "ok"
    /\ ret.node.kind = "DefaultCase"
    /\ markers[2] # NoLoc
    /\ markers[3] = ret.node.loc

\* C19: a resultis/return with an expression of resolved type T that finds
\* its cell entered but not fixed, Some(None), fixes the cell to T, and its
\* expression is not wrapped in a cast to an unresolved type.
C19_FixLater ==
    [][ \A kw \in {"ResultIs", "Return"} :
          LET c == NearestCell(Top.ctx, IF kw = "ResultIs" THEN "ValOf" ELSE "Function") IN
          (HandlerStep({kw}) /\ TokenType(Tok(pos + 1)) \in Types /\ c # 0 /\ cells[c] = NoType) =>
              /\ cells'[c] = TokenType(Tok(pos + 1))
              /\ ret'.tag = "ok" =>
                    ~(ret'.node.exprs[1].kind = "ImplicitCast" /\ ret'.node.exprs[1].typ = NoType) ]_vars

\* C20: with no SwitchOn frame in the chain an `endcase` fails with
\* InvalidStmt(endcase, switchon) at the keyword, whatever token follows it
\* and whether or not the chain requires a terminator.
C20_EndcaseOutside ==
    [][ (HandlerStep({"EndCase"}) /\ Nearest(Top.ctx, "SwitchOn") = 0) =>
          ret' = Err(InvalidStmt("endcase", "switchon", pos)) ]_vars


\* ---- the driver -----------------------------------------------------------------
\* what compile prints for one parsed file: the status line and the parse, the
\* fatal diagnostic when the parse failed, then every collected warning in order
Expected(p) ==
    <<Event("Compiling", p.file, 0, ""), Event("parse", p.file, 0, "")>>
    \o (IF p.ok THEN <<>> ELSE <<Event("error", p.file, 0, lines[p.err.line])>>)
    \o [i \in 1..Len(p.warnings) |-> Event("warning", p.file, i, lines[p.warnings[i].line])]

RECURSIVE ExpectedUpTo(_)
ExpectedUpTo(i) == IF i = 0 THEN <<>> ELSE ExpectedUpTo(i - 1) \o Expected(parses[i])

IsPrefix(s, t) == Len(s) <= Len(t) /\ SubSeq(t, 1, Len(s)) = s

Returned == result \in {"Ok", "Err"}

C11_Safety ==
    /\ Len(parses) <= source_files
    /\ \A i \in DOMAIN parses : parses[i].file = i
    /\ pc \in {"error", "warnings"} => Len(parses) = file
    /\ Returned =>
          /\ Len(parses) = source_files
          /\ (result = "Err") <=> (\E i \in DOMAIN parses : ~parses[i].ok)

\* C11: with a non-empty set of source files compile parses every file exactly
\* once, whatever the outcome of the other files' parses, and when it returns it
\* returns failure if and only if at least one parse returned a fatal diagnostic;
\* and it does return.
C11_EveryFileParsedOnce ==
    /\ []C11_Safety
    /\ (pc = "start" /\ source_files > 0) ~> Returned

C11_Witness ==
    /\ result = "Err"
    /\ Len(parses) = MaxFiles
    /\ ~parses[1].ok
    /\ parses[MaxFiles].ok

C12_Safety ==
    /\ pc # "panicked" => IsPrefix(trace, ExpectedUpTo(Len(parses)))
    /\ pc \in {"parse", "end", "done"} => trace = ExpectedUpTo(Len(parses))
    /\ pc = "warnings" /\ ~outcome.ok => \E i \in DOMAIN trace : trace[i] = Event("error", file, 0, lines[outcome.err.line])
    /\ Returned /\ (\A i \in DOMAIN parses : parses[i].ok) => result = "Ok"

\* C12: every warning collected while parsing a file is rendered, in order, after
\* the file's parse has returned and after its fatal diagnostic when there is one;
\* the warnings of a failed parse are rendered too, and warnings alone never make
\* compile return failure.
C12_WarningsRendered ==
    /\ []C12_Safety
    /\ (pc = "warnings") ~> (pc \in {"parse", "end"})

C12_Witness ==
    /\ result = "Err"
    /\ ~parses[1].ok
    /\ Len(parses[1].warnings) = MaxWarnings
    /\ \E i \in DOMAIN trace : trace[i].what = "warning" /\ trace[i].file = 1 /\ trace[i].n = MaxWarnings

C12_WitnessWarningsOnly ==
    /\ result = "Ok"
    /\ \E i \in DOMAIN parses : Len(parses[i].warnings) > 0

\* ---- the source registry -----------------------------------------------------
\* C13: line(n) is the text of line n for 1 <= n <= L and absent for every other
\* n, n = 0 and n = L + 1 included; it never aborts.
C13_LineTotal ==
    line_result # NotCalled =>
        line_result = IF line_num \in 1..Len(lines) THEN Some(lines[line_num]) ELSE None

C13_InRange ==
    line_result # NotCalled /\ line_num # 0 =>
        line_result = IF line_num \in 1..Len(lines) THEN Some(lines[line_num]) ELSE None

\* C14: two locations are equal exactly when file, line and column agree, so a
\* location equals its former value after set_width.
C14_EqualityIgnoresWidth ==
    Location_eq(location, former) <=>
        /\ location.source_file_id = former.source_file_id
        /\ location.line = former.line
        /\ location.column = former.column

C14_EqualityIsFieldwise == Location_eq(location, former) <=> location = former


\* ---- propagation of diagnostics ----------------------------------------------
\* the parse function that runs next returns a diagnostic
Failing == ~Done /\ ~Starved(Pending) /\ Pending.ret.tag = "err"

\* C21: the first diagnostic of a nested parse comes back unchanged to the
\* caller of the outermost parse_stmt: every enclosing parse function returns
\* it without consuming a token, pushing a warning, registering a default
\* marker, binding a type cell or returning a node.
C21_FirstDiagnostic ==
    [][Failing =>
          /\ stack' = <<>>
          /\ ret' = Pending.ret
          /\ pos' = Pending.s.pos
          /\ warnings' = Pending.s.warnings
          /\ markers' = Pending.s.markers
          /\ cells' = Pending.s.cells]_vars

\* a failure inside two nested blocks, after a warning
C21_Witness ==
    /\ Done
    /\ ret.tag = "err"
    /\ Len(toks) >= 3
    /\ toks[1] = "LBrace" /\ toks[2] = "LBrace"
    /\ \A i \in DOMAIN toks : toks[i] # "RBrace"
    /\ Len(warnings) = 1


\* ---- termination ---------------------------------------------------------------
\* parse_stmt has returned to its caller, with a node or with a diagnostic
Terminated == Done /\ ret.tag \in {"ok", "err"}

\* what is left to do: the tokens the lexer has not delivered, the delivered
\* tokens not consumed, and the parse functions that have yet to return at
\* the current token
Variant ==
    << TokenBudget + 1 - Len(toks),
       Len(toks) + 1 - pos,
       IF Done THEN 0 ELSE IF ret = NoRet THEN 1 ELSE 2 + Len(stack) >>

Less(a, b) ==
    \/ a[1] < b[1]
    \/ a[1] = b[1] /\ a[2] < b[2]
    \/ a[1] = b[1] /\ a[2] = b[2] /\ a[3] < b[3]

\* a step of the machine can be taken: the lexer delivers the token the parser
\* looks at, or the parse function on top of the stack runs
CanStep ==
    \/ ~Done /\ Starved(Pending)
    \/ /\ ~Done /\ ~Starved(Pending)
       /\ nstmts + NewStmts(Pending.push) <= StmtBudget
       /\ IF ret = NoRet
          THEN Top.fn = "parse_stmt" /\ current(S) \in Tokens
          ELSE Top.fn \in {"parse_stmt", "parse_compound", "parse_block", "parse_if",
                           "parse_unless", "parse_while", "parse_for", "parse_switchon"}

\* every parse_stmt call so far has been paid for by a token consumed before
\* it, no token is consumed that the lexer has not delivered, and as long as
\* parse_stmt has not returned the parse goes on: it neither stops nor is it
\* cut short by the bound on parse_stmt calls
C22_Progress ==
    /\ nstmts <= pos
    /\ \A i \in 1..3 : Variant[i] \in Nat
    /\ ~Terminated => CanStep

\* C22: on every token stream that ends in an end-of-file token parse_stmt
\* terminates with a statement node or a diagnostic: every step of the parse
\* lowers a bounded measure, because every parse_stmt call, hence every
\* iteration of the block loop and of the compound-chain loop, consumes a
\* token or fails, and the parse never stops before parse_stmt has returned.
C22_Terminates ==
    /\ []C22_Progress
    /\ [][Less(Variant', Variant)]_vars

\* an unclosed block and a dangling compound separator have been parsed to
\* the end of file
C22_Witness ==
    /\ Terminated
    /\ Ended
    /\ Len(toks) = MaxLoopTokens + 1
    /\ toks[1] = "LBrace"
    /\ toks[Len(toks) - 1] = "Compound"
    /\ \A i \in DOMAIN toks : toks[i] # "RBrace"

====
